---- MODULE Spec2Model ----
(***************************************************************************)
(* Model of src/estimator.py: the online mean / standard deviation /      *)
(* median accumulators and the Estimator that feeds them.                 *)
(*                                                                         *)
(* Observations are integers.  Python's true division produces rationals, *)
(* which are kept exactly as normalised pairs <<numerator, denominator>>  *)
(* (denominator > 0): the arithmetic of the model is exact arithmetic.    *)
(* float('inf') is the integer Inf among the observations and <<1, 0>>    *)
(* among the quotients; <<-1, 0>> is -inf and <<0, 0>> is nan.            *)
(***************************************************************************)
EXTENDS Integers, Sequences, FiniteSets, TLC

\* ---- bounds of the model ----
MaxLen == 5
MaxTokens == 4
MaxDigit == 4
MaxNeg == 1
MaxVal == 2
MaxWindow == 3
StreamLen == 100
SmallWindow == 2

\* ---- program constants ----
DefaultWindowSize == 1000

\* float('inf') as an observation: above every finite number of the model
Inf == 1000000

Values == (0 - MaxNeg)..MaxVal
WindowSizes == (0..MaxWindow) \cup {DefaultWindowSize}

\* ---- exact rational arithmetic (Python's / on numbers) ----
Abs(x) == IF x < 0 THEN -x ELSE x

Max(a, b) == IF a >= b THEN a ELSE b

\* (operands are bound through singleton sets so that each is evaluated once)
RECURSIVE GCD(_, _)
GCD(a, b) ==
    CHOOSE r \in {IF y = 0 THEN x ELSE GCD(y, x % y) : x \in {a}, y \in {b}} : TRUE

RNorm(n, d) ==
    CHOOSE r \in {IF g = 0 THEN <<0, 0>>
                   ELSE <<((IF y < 0 THEN -1 ELSE 1) * x) \div g,
                          ((IF y < 0 THEN -1 ELSE 1) * y) \div g>> :
                   x \in {n}, y \in {d}, g \in {GCD(Abs(n), Abs(d))}} : TRUE

\* addition of observations (inf + x = inf)
FAdd(a, b) == IF a = Inf \/ b = Inf THEN Inf ELSE a + b

\* an observation as a quotient
R(x) == IF x = Inf THEN <<1, 0>> ELSE <<x, 1>>

\* (inf + inf = inf, -inf + -inf = -inf; the general formula gives the rest)
RAdd(p, q) ==
    CHOOSE r \in {IF a[2] = 0 /\ b[2] = 0 /\ a = b THEN a
                   ELSE RNorm(a[1] * b[2] + b[1] * a[2], a[2] * b[2]) :
                   a \in {p}, b \in {q}} : TRUE

\* (inf - -inf = inf, -inf - inf = -inf; the general formula gives the rest)
RSub(p, q) ==
    CHOOSE r \in {IF a[2] = 0 /\ b[2] = 0 /\ a[1] = 0 - b[1] THEN a
                   ELSE RNorm(a[1] * b[2] - b[1] * a[2], a[2] * b[2]) :
                   a \in {p}, b \in {q}} : TRUE

RMul(p, q) ==
    CHOOSE r \in {RNorm(a[1] * b[1], a[2] * b[2]) : a \in {p}, b \in {q}} : TRUE

\* p / k for an integer k > 0
RDivInt(p, k) ==
    CHOOSE r \in {RNorm(a[1], a[2] * k) : a \in {p}} : TRUE

\* p <= q (false when either is nan)
RLeq(p, q) == p # <<0, 0>> /\ q # <<0, 0>> /\ p[1] * q[2] <= q[1] * p[2]

\* floor of the square root of n >= 0, by bisection on lo..hi
RECURSIVE ISqrtIn(_, _, _)
ISqrtIn(n, lo, hi) ==
    CHOOSE r \in {IF l >= h THEN l
                   ELSE LET mid == (l + h + 1) \div 2
                        IN  IF mid * mid <= n THEN ISqrtIn(n, mid, h)
                            ELSE ISqrtIn(n, l, mid - 1) :
                   l \in {lo}, h \in {hi}} : TRUE

ISqrt(n) == ISqrtIn(n, 0, 46340)

IsSquare(n) == n >= 0 /\ ISqrt(n) * ISqrt(n) = n

\* math.sqrt(q): ValueError (ok = FALSE) below 0; an exact root stays a
\* quotient, any other root is kept as <<n, d, 2>>, the square root of n / d
MathSqrt(q) ==
    IF q[2] = 0
    THEN [ok |-> q[1] >= 0, val |-> q]
    ELSE IF q[1] < 0
    THEN [ok |-> FALSE, val |-> q]
    ELSE IF IsSquare(q[1]) /\ IsSquare(q[2])
    THEN [ok |-> TRUE, val |-> <<ISqrt(q[1]), ISqrt(q[2])>>]
    ELSE [ok |-> TRUE, val |-> <<q[1], q[2], 2>>]

\* f'{x:.3f}': the printed decimal, as the quotient it denotes ("inf" and
\* "nan" as themselves); x is a quotient or a root <<n, d, 2>>
Format3(x) ==
    IF x[2] = 0 THEN x
    ELSE IF Len(x) = 3
    THEN RNorm((ISqrt((4000000 * x[1]) \div x[2]) + 1) \div 2, 1000)
    ELSE LET t == 1000 * x[1]
             fl == t \div x[2]
             rem == t - fl * x[2]
         IN  IF 2 * rem > x[2] \/ (2 * rem = x[2] /\ fl % 2 = 1)
             THEN RNorm(fl + 1, 1000)
             ELSE RNorm(fl, 1000)

\* ---- input lines: sequences of characters ----
DigitChars == <<"0", "1", "2", "3", "4", "5", "6", "7", "8", "9">>

IsWhitespace(c) == c \in {" ", "\n"}

IsDigit(c) == \E i \in 1..Len(DigitChars) : DigitChars[i] = c

DigitValue(c) == (CHOOSE i \in 1..Len(DigitChars) : DigitChars[i] = c) - 1

\* str.lower() on one character
LowerChar(c) ==
    CASE c = "E" -> "e"
      [] c = "X" -> "x"
      [] c = "I" -> "i"
      [] c = "T" -> "t"
      [] c = "N" -> "n"
      [] c = "F" -> "f"
      [] OTHER -> c

\* str.lower()
Lower(s) == [i \in 1..Len(s) |-> LowerChar(s[i])]

\* str.strip(): without the leading and the trailing whitespace
RECURSIVE LStrip(_)
LStrip(s) == IF s # << >> /\ IsWhitespace(s[1]) THEN LStrip(Tail(s)) ELSE s

RECURSIVE RStrip(_)
RStrip(s) ==
    IF s # << >> /\ IsWhitespace(s[Len(s)]) THEN RStrip(SubSeq(s, 1, Len(s) - 1)) ELSE s

Strip(s) == RStrip(LStrip(s))

\* the number written by a sequence of digits
RECURSIVE DigitsValue(_)
DigitsValue(s) ==
    IF s = << >> THEN 0
    ELSE 10 * DigitsValue(SubSeq(s, 1, Len(s) - 1)) + DigitValue(s[Len(s)])

\* float(line), for the lines of the model: surrounding whitespace is
\* ignored, digits give their number, "inf" in any case gives float('inf'),
\* anything else raises ValueError (ok = FALSE)
ParseFloat(line) ==
    LET t == Strip(line)
    IN  IF t # << >> /\ \A i \in 1..Len(t) : IsDigit(t[i])
        THEN [ok |-> TRUE, val |-> DigitsValue(t)]
        ELSE IF Lower(t) = <<"i", "n", "f">>
        THEN [ok |-> TRUE, val |-> Inf]
        ELSE [ok |-> FALSE, val |-> 0]

\* mutant: the comparison with 'exit' is case-sensitive
IsExitLine_nolower(line) == Strip(line) = <<"e", "x", "i", "t">>

\* next_val.strip().lower() == 'exit'
IsExitLine(line) == Lower(Strip(line)) = <<"e", "x", "i", "t">>

\* the lines the input may contain
Lines ==
    {<<DigitChars[k + 1], "\n">> : k \in 1..MaxDigit}
    \cup {<<"e", "x", "i", "t", "\n">>,
          <<" ", "E", "x", "i", "T", " ", "\n">>,
          <<"i", "n", "f", "\n">>,
          <<"a", "b", "c", "\n">>}

\* ---- sortedcontainers.SortedList, as used by the program ----
\* SortedList.add: insert to the right of the elements <= val
SortedList_add(l, v) ==
    LET k == Cardinality({i \in 1..Len(l) : l[i] <= v})
    IN  SubSeq(l, 1, k) \o <<v>> \o SubSeq(l, k + 1, Len(l))

\* l[key] with Python's indexing: a negative key counts from the end,
\* a key outside the list raises IndexError (ok = FALSE)
SortedList_getitem(l, key) ==
    LET k == IF key < 0 THEN key + Len(l) ELSE key
    IN  IF k < 0 \/ k >= Len(l)
        THEN [ok |-> FALSE, val |-> 0]
        ELSE [ok |-> TRUE, val |-> l[k + 1]]

\* l.pop(key): the element at key and the list without it
SortedList_pop(l, key) ==
    LET k == IF key < 0 THEN key + Len(l) ELSE key
    IN  IF k < 0 \/ k >= Len(l)
        THEN [ok |-> FALSE, val |-> 0, rest |-> l]
        ELSE [ok |-> TRUE, val |-> l[k + 1],
              rest |-> SubSeq(l, 1, k) \o SubSeq(l, k + 2, Len(l))]

\* SortedList(l.islice(start, stop))
SortedList_islice(l, start, stop) == SubSeq(l, start + 1, stop)

\* ---- BasicStorage ----
BasicStorage_init == << >>

BasicStorage_len(st) == Len(st)

BasicStorage_getitem(st, key) == SortedList_getitem(st, key)

\* mutant: the value is appended, the list is not kept sorted
BasicStorage_add_unsorted(st, v) == Append(st, v)

BasicStorage_add(st, v) == SortedList_add(st, v)

\* ---- OnlineMeanAccumulator ----
OnlineMeanAccumulator_init == [sum |-> 0, prev_sum |-> 0, total |-> 0]

\* mutant: the count is not incremented
OnlineMeanAccumulator_accumulate_nocount(m, v) ==
    [sum |-> FAdd(m.sum, v), prev_sum |-> m.sum, total |-> m.total]

OnlineMeanAccumulator_accumulate(m, v) ==
    [sum |-> FAdd(m.sum, v), prev_sum |-> m.sum, total |-> m.total + 1]

\* mutant: the sum is divided by the previous count
OnlineMeanAccumulator_get_current_prevcount(m) ==
    RDivInt(R(m.sum), Max(1, m.total - 1))

\* mutant: the count is not guarded by max
OnlineMeanAccumulator_get_current_noguard(m) ==
    RDivInt(R(m.sum), m.total)

OnlineMeanAccumulator_get_current(m) ==
    RDivInt(R(m.sum), Max(1, m.total))

\* mutant: the previous sum is divided by the current count
OnlineMeanAccumulator_get_previous_total(m) ==
    RDivInt(R(m.prev_sum), Max(1, m.total))

OnlineMeanAccumulator_get_previous(m) ==
    RDivInt(R(m.prev_sum), Max(1, m.total - 1))

\* ---- OnlineStddevAccumulator (meanAcc is the paired mean accumulator) ----
OnlineStddevAccumulator_init == [m2n |-> R(0), prev_m2n |-> R(0), count |-> 0]

\* mutant: both factors use the current mean
OnlineStddevAccumulator_accumulate_current(s, m, v) ==
    [count |-> s.count + 1,
     prev_m2n |-> s.m2n,
     m2n |-> RAdd(s.m2n,
                  RMul(RSub(R(v), OnlineMeanAccumulator_get_current(m)),
                       RSub(R(v), OnlineMeanAccumulator_get_current(m))))]

OnlineStddevAccumulator_accumulate(s, m, v) ==
    [count |-> s.count + 1,
     prev_m2n |-> s.m2n,
     m2n |-> RAdd(s.m2n,
                  RMul(RSub(R(v), OnlineMeanAccumulator_get_previous(m)),
                       RSub(R(v), OnlineMeanAccumulator_get_current(m))))]

\* mutant: the sum of squares is divided by count - 1
OnlineStddevAccumulator_radicand_sample(s) == RDivInt(s.m2n, Max(1, s.count - 1))

\* the argument of math.sqrt in get_current
OnlineStddevAccumulator_radicand(s) == RDivInt(s.m2n, Max(1, s.count))

OnlineStddevAccumulator_get_current(s) ==
    MathSqrt(OnlineStddevAccumulator_radicand(s))

\* ---- MedianAccumulator (exact) ----
MedianAccumulator_init == [storage |-> BasicStorage_init, prev |-> R(0)]

MedianAccumulator_get_current(a) ==
    LET n == BasicStorage_len(a.storage)
        index == n \div 2
    IN  IF n % 2 = 0
        THEN LET hi == BasicStorage_getitem(a.storage, index)
                 lo == BasicStorage_getitem(a.storage, index - 1)
             IN  IF hi.ok /\ lo.ok
                 THEN [ok |-> TRUE, val |-> RDivInt(R(FAdd(hi.val, lo.val)), 2)]
                 ELSE [ok |-> FALSE, val |-> R(0)]
        ELSE LET mid == BasicStorage_getitem(a.storage, index)
             IN  IF mid.ok
                 THEN [ok |-> TRUE, val |-> R(mid.val)]
                 ELSE [ok |-> FALSE, val |-> R(0)]

MedianAccumulator_accumulate(a, v) ==
    IF BasicStorage_len(a.storage) > 0
    THEN LET cur == MedianAccumulator_get_current(a)
         IN  IF cur.ok
             THEN [ok |-> TRUE,
                   acc |-> [storage |-> BasicStorage_add(a.storage, v),
                            prev |-> cur.val]]
             ELSE [ok |-> FALSE, acc |-> a]
    ELSE [ok |-> TRUE,
          acc |-> [storage |-> BasicStorage_add(a.storage, v), prev |-> a.prev]]

\* ---- FaultyMedianAccumulator (windowed) ----
FaultyMedianAccumulator_init(ws) ==
    [prev |-> 0, median |-> 0, windowSize |-> ws,
     windowLeft |-> << >>, windowRight |-> << >>]

\* mutant: the first branch pops the smallest element of windowLeft
FaultyMedianAccumulator_rotate_popfirst(f, v) ==
    IF v <= f.median
    THEN LET left == SortedList_add(f.windowLeft, v)
             right == SortedList_add(f.windowRight, f.median)
             p == SortedList_pop(left, 0)
         IN  [ok |-> p.ok,
              acc |-> [f EXCEPT !.prev = f.median, !.median = p.val,
                                !.windowLeft = p.rest, !.windowRight = right]]
    ELSE LET right == SortedList_add(f.windowRight, v)
             left == SortedList_add(f.windowLeft, f.median)
             p == SortedList_pop(right, 0)
         IN  [ok |-> p.ok,
              acc |-> [f EXCEPT !.prev = f.median, !.median = p.val,
                                !.windowLeft = left, !.windowRight = p.rest]]

\* mutant: the second branch does not add val to windowRight
FaultyMedianAccumulator_rotate_noadd(f, v) ==
    IF v <= f.median
    THEN LET left == SortedList_add(f.windowLeft, v)
             right == SortedList_add(f.windowRight, f.median)
             p == SortedList_pop(left, -1)
         IN  [ok |-> p.ok,
              acc |-> [f EXCEPT !.prev = f.median, !.median = p.val,
                                !.windowLeft = p.rest, !.windowRight = right]]
    ELSE LET left == SortedList_add(f.windowLeft, f.median)
             p == SortedList_pop(f.windowRight, 0)
         IN  [ok |-> p.ok,
              acc |-> [f EXCEPT !.prev = f.median, !.median = p.val,
                                !.windowLeft = left, !.windowRight = p.rest]]

\* lines 114-122: the rotation
FaultyMedianAccumulator_rotate(f, v) ==
    IF v <= f.median
    THEN LET left == SortedList_add(f.windowLeft, v)
             right == SortedList_add(f.windowRight, f.median)
             p == SortedList_pop(left, -1)
         IN  [ok |-> p.ok,
              acc |-> [f EXCEPT !.prev = f.median, !.median = p.val,
                                !.windowLeft = p.rest, !.windowRight = right]]
    ELSE LET right == SortedList_add(f.windowRight, v)
             left == SortedList_add(f.windowLeft, f.median)
             p == SortedList_pop(right, 0)
         IN  [ok |-> p.ok,
              acc |-> [f EXCEPT !.prev = f.median, !.median = p.val,
                                !.windowLeft = left, !.windowRight = p.rest]]

\* mutant: compaction of windowLeft keeps the lower half
FaultyMedianAccumulator_compactLeft_lower(f) ==
    IF Len(f.windowLeft) > f.windowSize
    THEN LET leftIndex == 0
             rightIndex == Len(f.windowLeft) \div 2
         IN  [f EXCEPT !.windowLeft =
                  SortedList_islice(f.windowLeft, leftIndex, rightIndex)]
    ELSE f

\* mutant: compaction of windowLeft keeps the windowSize largest elements
FaultyMedianAccumulator_compactLeft_window(f) ==
    IF Len(f.windowLeft) > f.windowSize
    THEN LET leftIndex == Len(f.windowLeft) - f.windowSize
             rightIndex == Len(f.windowLeft)
         IN  [f EXCEPT !.windowLeft =
                  SortedList_islice(f.windowLeft, leftIndex, rightIndex)]
    ELSE f

\* lines 123-126: compaction of windowLeft
FaultyMedianAccumulator_compactLeft(f) ==
    IF Len(f.windowLeft) > f.windowSize
    THEN LET leftIndex == Len(f.windowLeft) \div 2
             rightIndex == Len(f.windowLeft)
         IN  [f EXCEPT !.windowLeft =
                  SortedList_islice(f.windowLeft, leftIndex, rightIndex)]
    ELSE f

\* lines 127-130: compaction of windowRight
FaultyMedianAccumulator_compactRight(f) ==
    IF Len(f.windowRight) > f.windowSize
    THEN LET leftIndex == 0
             rightIndex == Len(f.windowRight) \div 2
         IN  [f EXCEPT !.windowRight =
                  SortedList_islice(f.windowRight, leftIndex, rightIndex)]
    ELSE f

FaultyMedianAccumulator_accumulate(f, v) ==
    LET r == FaultyMedianAccumulator_rotate(f, v)
    IN  IF r.ok
        THEN [ok |-> TRUE,
              acc |-> FaultyMedianAccumulator_compactRight(
                          FaultyMedianAccumulator_compactLeft(r.acc))]
        ELSE [ok |-> FALSE, acc |-> f]

FaultyMedianAccumulator_get_current(f) == [ok |-> TRUE, val |-> R(f.median)]

\* ---- state ----
VARIABLES
    option,      \* the median strategy chosen at startup: "default" or "faulty"
    meanAcc,     \* OnlineMeanAccumulator
    stddevAcc,   \* OnlineStddevAccumulator paired with meanAcc
    medianAcc,   \* MedianAccumulator over BasicStorage (option "default")
    faultyAcc,   \* FaultyMedianAccumulator (option "faulty")
    pc,          \* position in Estimator.accumulate: 0 outside, k before its k-th call
    val,         \* the argument of the running Estimator.accumulate
    history,     \* the observations whose Estimator.accumulate has returned
    ret,         \* value returned by the last Estimator call: << >> for None, or a rational
    err,         \* "none", or the exception that ended the program
    dpc,         \* the driver loop: "loop" before readline, "call" inside
                 \* estimator.accumulate, "exited" after sys.exit(0)
    tokens,      \* the lines read from the input so far
    eof,         \* the input has ended: readline returns the empty string
    printed      \* the result triples printed so far

vars == <<option, meanAcc, stddevAcc, medianAcc, faultyAcc, pc, val, history, ret, err,
          dpc, tokens, eof, printed>>

driverVars == <<dpc, tokens, eof, printed>>

\* mutant: the standard deviation is accumulated before the mean
EstimatorCalls_stddevFirst == <<"stddevAcc", "meanAcc", "medianAcc">>

\* the body of Estimator.accumulate: the accumulators it calls, in order
EstimatorCalls == <<"meanAcc", "stddevAcc", "medianAcc">>

Init ==
    /\ option \in {"default", "faulty"}
    /\ meanAcc = OnlineMeanAccumulator_init
    /\ stddevAcc = OnlineStddevAccumulator_init
    /\ medianAcc = MedianAccumulator_init
    /\ \E ws \in WindowSizes :
          /\ (option = "default" => ws = DefaultWindowSize)
          /\ faultyAcc = FaultyMedianAccumulator_init(ws)
    /\ pc = 0
    /\ val = 0
    /\ history = << >>
    /\ ret = << >>
    /\ err = "none"
    /\ dpc = "loop"
    /\ tokens = << >>
    /\ eof = FALSE
    /\ printed = << >>

\* control after the call at position pc returns
Advance ==
    /\ pc' = IF pc = Len(EstimatorCalls) THEN 0 ELSE pc + 1
    /\ history' = IF pc = Len(EstimatorCalls) THEN Append(history, val) ELSE history

\* the driver calls estimator.accumulate(x)
Estimator_accumulate(x) ==
    /\ pc = 0
    /\ err = "none"
    /\ pc' = 1
    /\ val' = x
    /\ ret' = << >>
    /\ UNCHANGED <<option, meanAcc, stddevAcc, medianAcc, faultyAcc, history, err>>

\* self.meanAcc.accumulate(val)
Estimator_callMean ==
    /\ pc \in 1..Len(EstimatorCalls)
    /\ err = "none"
    /\ EstimatorCalls[pc] = "meanAcc"
    /\ meanAcc' = OnlineMeanAccumulator_accumulate(meanAcc, val)
    /\ Advance
    /\ UNCHANGED <<dpc, tokens, eof, printed, option, stddevAcc, medianAcc, faultyAcc, val, ret, err>>

\* self.stddevAcc.accumulate(val)
Estimator_callStddev ==
    /\ pc \in 1..Len(EstimatorCalls)
    /\ err = "none"
    /\ EstimatorCalls[pc] = "stddevAcc"
    /\ stddevAcc' = OnlineStddevAccumulator_accumulate(stddevAcc, meanAcc, val)
    /\ Advance
    /\ UNCHANGED <<dpc, tokens, eof, printed, option, meanAcc, medianAcc, faultyAcc, val, ret, err>>

\* self.medianAcc.accumulate(val), on the accumulator chosen by option
Estimator_callMedian ==
    /\ pc \in 1..Len(EstimatorCalls)
    /\ err = "none"
    /\ EstimatorCalls[pc] = "medianAcc"
    /\ LET r == IF option = "faulty"
                THEN FaultyMedianAccumulator_accumulate(faultyAcc, val)
                ELSE MedianAccumulator_accumulate(medianAcc, val)
       IN  IF r.ok
           THEN /\ faultyAcc' = IF option = "faulty" THEN r.acc ELSE faultyAcc
                /\ medianAcc' = IF option = "faulty" THEN medianAcc ELSE r.acc
                /\ Advance
                /\ err' = err
           ELSE /\ err' = "IndexError"
                /\ UNCHANGED <<faultyAcc, medianAcc, pc, history>>
    /\ UNCHANGED <<dpc, tokens, eof, printed, option, meanAcc, stddevAcc, val, ret>>

\* Estimator.get_mean()
Estimator_get_mean ==
    /\ pc = 0
    /\ err = "none"
    /\ ret' = OnlineMeanAccumulator_get_current(meanAcc)
    /\ UNCHANGED <<dpc, tokens, eof, printed, option, meanAcc, stddevAcc, medianAcc, faultyAcc, pc, val, history, err>>

\* Estimator.get_stddev()
Estimator_get_stddev ==
    /\ pc = 0
    /\ err = "none"
    /\ LET r == OnlineStddevAccumulator_get_current(stddevAcc)
       IN  IF r.ok
           THEN ret' = r.val /\ err' = err
           ELSE ret' = ret /\ err' = "ValueError"
    /\ UNCHANGED <<dpc, tokens, eof, printed, option, meanAcc, stddevAcc, medianAcc, faultyAcc, pc, val, history>>

\* Estimator.get_median()
Estimator_get_median ==
    /\ pc = 0
    /\ err = "none"
    /\ LET r == IF option = "faulty"
                THEN FaultyMedianAccumulator_get_current(faultyAcc)
                ELSE MedianAccumulator_get_current(medianAcc)
       IN  IF r.ok
           THEN ret' = r.val /\ err' = err
           ELSE ret' = ret /\ err' = "IndexError"
    /\ UNCHANGED <<dpc, tokens, eof, printed, option, meanAcc, stddevAcc, medianAcc, faultyAcc, pc, val, history>>

\* the driver passes the next observation of the input to the estimator
Driver_accumulate ==
    /\ \E x \in Values : Len(history) < MaxLen /\ Estimator_accumulate(x)
    /\ UNCHANGED driverVars

Next ==
    \/ Driver_accumulate
    \/ Estimator_callMean
    \/ Estimator_callStddev
    \/ Estimator_callMedian
    \/ Estimator_get_mean
    \/ Estimator_get_stddev
    \/ Estimator_get_median

Spec == Init /\ [][Next]_vars

\* ---- the stream 1, 2, ..., StreamLen fed to a windowed accumulator ----
Init9 ==
    /\ option = "faulty"
    /\ meanAcc = OnlineMeanAccumulator_init
    /\ stddevAcc = OnlineStddevAccumulator_init
    /\ medianAcc = MedianAccumulator_init
    /\ faultyAcc = FaultyMedianAccumulator_init(SmallWindow)
    /\ pc = 0
    /\ val = 0
    /\ history = << >>
    /\ ret = << >>
    /\ err = "none"
    /\ dpc = "loop"
    /\ tokens = << >>
    /\ eof = FALSE
    /\ printed = << >>

\* the driver passes the next value of 1, 2, ..., StreamLen to the estimator
Driver_accumulate9 ==
    /\ Len(history) < StreamLen /\ Estimator_accumulate(Len(history) + 1)
    /\ UNCHANGED driverVars

Next9 ==
    \/ Driver_accumulate9
    \/ Estimator_callMean
    \/ Estimator_callStddev
    \/ Estimator_callMedian

\* the driver loop is sequential and keeps feeding while input remains
Spec9 == Init9 /\ [][Next9]_vars /\ WF_vars(Next9)

\* ---- the driver loop on an input of at most MaxTokens lines ----
InitD ==
    /\ option \in {"default", "faulty"}
    /\ meanAcc = OnlineMeanAccumulator_init
    /\ stddevAcc = OnlineStddevAccumulator_init
    /\ medianAcc = MedianAccumulator_init
    /\ faultyAcc = FaultyMedianAccumulator_init(DefaultWindowSize)
    /\ pc = 0
    /\ val = 0
    /\ history = << >>
    /\ ret = << >>
    /\ err = "none"
    /\ dpc = "loop"
    /\ tokens = << >>
    /\ eof = FALSE
    /\ printed = << >>

\* lines 192-203 on the line that readline returned
Driver_handle(line) ==
    IF IsExitLine(line)
    THEN /\ dpc' = "exited"
         /\ UNCHANGED <<option, meanAcc, stddevAcc, medianAcc, faultyAcc, pc, val,
                        history, ret, err>>
    ELSE LET f == ParseFloat(line)
         IN  IF f.ok
             THEN /\ Estimator_accumulate(f.val)
                  /\ dpc' = "call"
             ELSE /\ dpc' = "loop"
                  /\ UNCHANGED <<option, meanAcc, stddevAcc, medianAcc, faultyAcc, pc,
                                 val, history, ret, err>>

\* one pass of the loop up to the call of estimator.accumulate: readline
\* returns the next line of the input
Driver_readline ==
    /\ dpc = "loop" /\ pc = 0 /\ err = "none"
    /\ ~eof /\ Len(tokens) < MaxTokens
    /\ \E line \in Lines :
          /\ tokens' = Append(tokens, line)
          /\ Driver_handle(line)
    /\ UNCHANGED <<eof, printed>>

\* the same pass at the end of the input: readline returns the empty string
Driver_readline_eof ==
    /\ dpc = "loop" /\ pc = 0 /\ err = "none"
    /\ eof' = TRUE
    /\ Driver_handle(<< >>)
    /\ UNCHANGED <<tokens, printed>>

\* line 204, after estimator.accumulate has returned
Driver_print ==
    /\ dpc = "call" /\ pc = 0 /\ err = "none"
    /\ LET mean == OnlineMeanAccumulator_get_current(meanAcc)
           stddev == OnlineStddevAccumulator_get_current(stddevAcc)
           median == IF option = "faulty"
                     THEN FaultyMedianAccumulator_get_current(faultyAcc)
                     ELSE MedianAccumulator_get_current(medianAcc)
       IN  IF ~stddev.ok
           THEN err' = "ValueError" /\ UNCHANGED <<dpc, printed>>
           ELSE IF ~median.ok
           THEN err' = "IndexError" /\ UNCHANGED <<dpc, printed>>
           ELSE /\ printed' = Append(printed,
                        <<Format3(mean), Format3(stddev.val), Format3(median.val)>>)
                /\ dpc' = "loop"
                /\ err' = err
    /\ UNCHANGED <<option, meanAcc, stddevAcc, medianAcc, faultyAcc, pc, val, history,
                   ret, tokens, eof>>

NextD ==
    \/ Driver_readline
    \/ Driver_readline_eof
    \/ Estimator_callMean
    \/ Estimator_callStddev
    \/ Estimator_callMedian
    \/ Driver_print

\* the driver is sequential: it keeps running while it can take a step
SpecDriver == InitD /\ [][NextD]_vars /\ WF_vars(NextD)

\* ---- reference definitions, computed from the observations alone ----
RECURSIVE Sum(_)
Sum(s) == IF s = << >> THEN 0 ELSE s[1] + Sum(Tail(s))

\* smallest and largest element of a non-empty sequence
RECURSIVE SeqMin(_)
SeqMin(s) ==
    IF Len(s) = 1 THEN s[1]
    ELSE LET m == SeqMin(Tail(s)) IN IF s[1] <= m THEN s[1] ELSE m

RECURSIVE SeqMax(_)
SeqMax(s) ==
    IF Len(s) = 1 THEN s[1]
    ELSE LET m == SeqMax(Tail(s)) IN IF s[1] >= m THEN s[1] ELSE m

\* the k-th smallest element of s (k in 1..Len(s)): the element at position k
\* of s sorted in ascending order
KthSmallest(s, k) ==
    CHOOSE x \in {s[i] : i \in 1..Len(s)} :
        /\ Cardinality({i \in 1..Len(s) : s[i] < x}) < k
        /\ k <= Cardinality({i \in 1..Len(s) : s[i] <= x})

\* the median of a non-empty sequence: the middle of the sorted sequence, or
\* the average of its two middle elements
TrueMedian(s) ==
    LET n == Len(s)
    IN  IF n % 2 = 1
        THEN R(KthSmallest(s, (n + 1) \div 2))
        ELSE RDivInt(R(KthSmallest(s, n \div 2) + KthSmallest(s, n \div 2 + 1)), 2)

\* Estimator.accumulate has returned (or has not been called yet)
Idle == pc = 0 /\ err = "none"

\* C1: after each accumulate on a fresh exact MedianAccumulator, get_current()
\* is the true median of the observations so far (middle element of the sorted
\* sequence for an odd count, average of the two middle elements for an even one).
C1_ExactMedian ==
    (Idle /\ option = "default" /\ history # << >>) =>
        MedianAccumulator_get_current(medianAcc) =
            [ok |-> TRUE, val |-> TrueMedian(history)]

C1_Witness ==
    /\ Idle /\ option = "default"
    /\ history = <<2, -1, 1, 0>>
    /\ MedianAccumulator_get_current(medianAcc).val = <<1, 2>>

\* a fresh exact MedianAccumulator fed the sequence s, then get_current()
RECURSIVE ExactRun(_, _)
ExactRun(a, s) ==
    IF s = << >> THEN MedianAccumulator_get_current(a)
    ELSE LET r == MedianAccumulator_accumulate(a, s[1])
         IN  IF r.ok THEN ExactRun(r.acc, Tail(s)) ELSE [ok |-> FALSE, val |-> R(0)]

\* C2: with a windowSize so large that compaction never fires, the pivot of the
\* windowed accumulator equals, after each accumulate, the exact
\* MedianAccumulator's get_current for the same prefix.
C2_PivotIsExactMedian ==
    (Idle /\ option = "faulty" /\ faultyAcc.windowSize > MaxLen /\ history # << >>) =>
        FaultyMedianAccumulator_get_current(faultyAcc) =
            ExactRun(MedianAccumulator_init, history)

\* sum of the squared deviations of s from its mean (two passes)
RECURSIVE SumSqFrom(_, _)
SumSqFrom(s, mu) ==
    IF s = << >> THEN R(0)
    ELSE RAdd(RMul(RSub(R(s[1]), mu), RSub(R(s[1]), mu)), SumSqFrom(Tail(s), mu))

SumSqDev(s) == SumSqFrom(s, RNorm(Sum(s), Len(s)))

\* C3: after n >= 2 observations through the Estimator, m2 is the sum of the
\* squared deviations of the n values from their mean, so m2 / n is the
\* population variance and m2 >= 0.
C3_M2IsSumSqDev ==
    (Idle /\ Len(history) >= 2) =>
        /\ stddevAcc.m2n = SumSqDev(history)
        /\ stddevAcc.m2n[1] >= 0
        /\ stddevAcc.count = Len(history)
        /\ OnlineStddevAccumulator_radicand(stddevAcc) =
               RDivInt(SumSqDev(history), Len(history))

C3_Witness ==
    /\ Idle
    /\ history = <<2, -1, 1, 0>>
    /\ stddevAcc.m2n = <<5, 1>>
    /\ OnlineStddevAccumulator_radicand(stddevAcc) = <<5, 4>>

\* C4: after n >= 1 accumulations the mean's get_current() is the sum of the
\* n values divided by n.
C4_MeanIsSumOverN ==
    (Idle /\ Len(history) >= 1) =>
        OnlineMeanAccumulator_get_current(meanAcc) = RNorm(Sum(history), Len(history))

C4_Witness ==
    /\ Idle
    /\ history = <<2, -1, 1>>
    /\ OnlineMeanAccumulator_get_current(meanAcc) = <<2, 3>>

\* C5: the exact MedianAccumulator never performs an out-of-range rank lookup;
\* get_current() with no observation accumulated returns 0, it does not raise.
C5_NoOutOfRange ==
    /\ err = "none"
    /\ (option = "default" /\ history = << >> /\ pc = 0 /\ ret # << >>) => ret = R(0)

\* C6: every Estimator.accumulate(x) updates the mean first, then the standard
\* deviation, then the median; when the standard deviation reads the mean, the
\* mean's count already includes x and its previous() excludes x.
C6_Order ==
    [][ /\ (meanAcc' # meanAcc) =>
              /\ pc = 1
              /\ stddevAcc.count = Len(history)
        /\ (stddevAcc' # stddevAcc) =>
              /\ pc = 2
              /\ meanAcc.total = Len(history) + 1
              /\ meanAcc.sum = Sum(history) + val
              /\ OnlineMeanAccumulator_get_previous(meanAcc) =
                     RNorm(Sum(history), Max(1, Len(history)))
        /\ (medianAcc' # medianAcc \/ faultyAcc' # faultyAcc) =>
              /\ pc = 3
              /\ meanAcc.total = Len(history) + 1
              /\ stddevAcc.count = Len(history) + 1
      ]_vars

C6_Witness ==
    /\ pc = 3 /\ err = "none"
    /\ Len(history) = 1
    /\ meanAcc.total = 2
    /\ stddevAcc.count = 2
    /\ option = "default" /\ BasicStorage_len(medianAcc.storage) = 1

\* C7: for every windowSize >= 0, after each accumulate both side buffers hold
\* at most windowSize elements.
C7_SidesWithinWindow ==
    (Idle /\ option = "faulty") =>
        /\ Len(faultyAcc.windowLeft) <= faultyAcc.windowSize
        /\ Len(faultyAcc.windowRight) <= faultyAcc.windowSize

\* C8: after each accumulate on a fresh windowed accumulator its pivot lies
\* within [min, max] of the observations so far, for every windowSize.
C8_PivotInRange ==
    (Idle /\ option = "faulty" /\ history # << >>) =>
        /\ RLeq(R(SeqMin(history)), FaultyMedianAccumulator_get_current(faultyAcc).val)
        /\ RLeq(FaultyMedianAccumulator_get_current(faultyAcc).val, R(SeqMax(history)))

\* compaction has dropped elements and the initial pivot 0 is out of range
C8_Witness ==
    /\ Idle /\ option = "faulty"
    /\ Len(history) = 4
    /\ SeqMin(history) > 0
    /\ Len(faultyAcc.windowLeft) + Len(faultyAcc.windowRight) < Len(history)
    /\ faultyAcc.median < SeqMax(history)

\* C9: feeding 1, 2, ..., 100 to a windowed accumulator with windowSize 2
\* eventually reaches a step where its pivot differs from the true running
\* median of the observations so far.
C9_EventuallyDiverges ==
    <>(/\ Idle /\ history # << >>
       /\ FaultyMedianAccumulator_get_current(faultyAcc).val # TrueMedian(history))

C9_Witness ==
    /\ Idle
    /\ history = <<1, 2, 3>>
    /\ faultyAcc.windowSize = SmallWindow
    /\ faultyAcc.median = 3
    /\ TrueMedian(history) = R(2)

MeanThenStddev(m, sd, x) ==
    OnlineStddevAccumulator_accumulate(sd, OnlineMeanAccumulator_accumulate(m, x), x).m2n

\* m2n after stddevAcc.accumulate(x) and then meanAcc.accumulate(x)
StddevThenMean(m, sd, x) ==
    OnlineStddevAccumulator_accumulate(sd, m, x).m2n

\* C11 as stated: in every state reached by correctly ordered accumulation and
\* for every next value x, StdDev.accumulate(x) before Mean.accumulate(x)
\* leaves an m2 different from the one the correct order leaves.
C11_WrongOrderAlwaysDiffers ==
    Idle => \A x \in Values :
        StddevThenMean(meanAcc, stddevAcc, x) # MeanThenStddev(meanAcc, stddevAcc, x)

\* C11 (amended): the two orders leave different m2 exactly when x differs
\* from the current mean and the mean including x differs from the mean's
\* previous() value; otherwise they leave the same m2.
C11_WrongOrderDiffersIff ==
    Idle => \A x \in Values :
        (StddevThenMean(meanAcc, stddevAcc, x) # MeanThenStddev(meanAcc, stddevAcc, x))
        <=> /\ R(x) # OnlineMeanAccumulator_get_current(meanAcc)
            /\ OnlineMeanAccumulator_get_current(
                   OnlineMeanAccumulator_accumulate(meanAcc, x))
                 # OnlineMeanAccumulator_get_previous(meanAcc)

C11_Witness ==
    /\ Idle
    /\ history = <<1, 2>>
    /\ MeanThenStddev(meanAcc, stddevAcc, 0) = <<2, 1>>
    /\ StddevThenMean(meanAcc, stddevAcc, 0) = <<2, 1>>
    /\ StddevThenMean(meanAcc, stddevAcc, -1) # MeanThenStddev(meanAcc, stddevAcc, -1)

\* C13: before any observation, the mean's get_current() and get_previous(),
\* the standard deviation's get_current() and the windowed median's
\* get_current() all return 0 and raise nothing.
C13_EmptyReadsZero ==
    (Idle /\ history = << >>) =>
        /\ OnlineMeanAccumulator_get_current(meanAcc) = R(0)
        /\ OnlineMeanAccumulator_get_previous(meanAcc) = R(0)
        /\ OnlineStddevAccumulator_get_current(stddevAcc) = [ok |-> TRUE, val |-> R(0)]
        /\ FaultyMedianAccumulator_get_current(faultyAcc) = [ok |-> TRUE, val |-> R(0)]
        /\ (option = "faulty" /\ ret # << >>) => ret = R(0)

C13_Witness ==
    /\ Idle
    /\ history = << >>
    /\ option = "faulty"
    /\ ret = R(0)

\* the driver has printed the result of every accepted line and waits for input
AtLoop == dpc = "loop" /\ pc = 0 /\ err = "none"

\* C12: feeding 1, 2, 3, 4 to an Estimator with the exact median gives, after
\* each step, mean and median (1, 1), (1.5, 1.5), (2, 2), (2.5, 2.5) and
\* variances m2 / count of 0, 1/4, 2/3, 5/4, whose square roots are printed
\* as 0.000, 0.500, 0.816, 1.118.
C12_Means == <<R(1), <<3, 2>>, R(2), <<5, 2>>>>

C12_Variances == <<R(0), <<1, 4>>, <<2, 3>>, <<5, 4>>>>

C12_PrintedStddev == <<R(0), <<1, 2>>, RNorm(816, 1000), RNorm(1118, 1000)>>

C12_EndToEnd ==
    (/\ AtLoop /\ option = "default"
     /\ Len(history) \in 1..4
     /\ history = SubSeq(<<1, 2, 3, 4>>, 1, Len(history))) =>
        LET k == Len(history)
        IN  /\ OnlineMeanAccumulator_get_current(meanAcc) = C12_Means[k]
            /\ MedianAccumulator_get_current(medianAcc) = [ok |-> TRUE, val |-> C12_Means[k]]
            /\ OnlineStddevAccumulator_radicand(stddevAcc) = C12_Variances[k]
            /\ Len(printed) = k
            /\ \A j \in 1..k :
                   printed[j] = <<C12_Means[j], C12_PrintedStddev[j], C12_Means[j]>>

C12_Witness ==
    /\ AtLoop /\ option = "default"
    /\ history = <<1, 2, 3, 4>>
    /\ printed[3] = <<R(2), <<102, 125>>, R(2)>>
    /\ printed[4] = <<<<5, 2>>, <<559, 500>>, <<5, 2>>>>

\* the line read by the step, when the step reads one from the input
LineRead == tokens'[Len(tokens')]

ReadsLine == Len(tokens') = Len(tokens) + 1

\* the line, trimmed, is the word exit in any mix of upper and lower case
IsExitWord(line) ==
    LET t == Strip(line)
    IN  /\ Len(t) = 4
        /\ t[1] \in {"e", "E"} /\ t[2] \in {"x", "X"}
        /\ t[3] \in {"i", "I"} /\ t[4] \in {"t", "T"}

\* the line, trimmed, writes a finite number
IsFiniteNumber(line) ==
    LET t == Strip(line)
    IN  t # << >> /\ \A i \in 1..Len(t) : IsDigit(t[i])

\* C14: for every input token that is not a finite floating-point number
\* (malformed text, or a non-finite value such as inf or nan) the driver does
\* not call Estimator.accumulate: the accumulators are unchanged, no triple is
\* printed and the loop goes on to the next token.
C14_NonFiniteRejected ==
    [][(ReadsLine /\ ~IsFiniteNumber(LineRead) /\ ~IsExitWord(LineRead)) =>
          /\ pc' = 0
          /\ dpc' = "loop"
          /\ UNCHANGED <<meanAcc, stddevAcc, medianAcc, faultyAcc, history, printed>>
      ]_vars

\* the observations of the lines the driver accepts, in order
RECURSIVE Accepted(_)
Accepted(ls) ==
    IF ls = << >> THEN << >>
    ELSE LET f == ParseFloat(ls[Len(ls)])
             before == Accepted(SubSeq(ls, 1, Len(ls) - 1))
         IN  IF f.ok THEN Append(before, f.val) ELSE before

\* C15: when the driver reads a token equal to exit without regard to case
\* (after trimming), it terminates at once: every accepted observation before
\* it has been accumulated and reported exactly once, and nothing is
\* accumulated after it.
C15_ExitTerminates ==
    /\ [][(ReadsLine /\ IsExitWord(LineRead)) =>
              /\ dpc' = "exited"
              /\ pc' = 0
              /\ history' = Accepted(tokens)
              /\ Len(printed') = Len(history')
              /\ UNCHANGED <<meanAcc, stddevAcc, medianAcc, faultyAcc, history, printed>>
          ]_vars
    /\ [][dpc = "exited" => UNCHANGED vars]_vars
    /\ [](dpc = "exited" =>
              /\ IsExitWord(tokens[Len(tokens)])
              /\ history = Accepted(SubSeq(tokens, 1, Len(tokens) - 1))
              /\ Len(printed) = Len(history))

C15_Witness ==
    /\ dpc = "exited"
    /\ Len(tokens) = 4
    /\ tokens[4] = <<" ", "E", "x", "i", "T", " ", "\n">>
    /\ tokens[2] = <<"a", "b", "c", "\n">>
    /\ history = <<2, 1>>
    /\ Len(printed) = 2

\* at the end of the input the loop is never stopped: another pass, reading
\* the empty string again, is always possible
EofPassRepeats == (eof /\ AtLoop) => ENABLED Driver_readline_eof

\* C20: on every finite input the driver loop eventually terminates, also when
\* the input ends without an exit token.
\* A traceback of the interpreter would end the loop as well.
C20_Terminates == <>(dpc = "exited" \/ err # "none")

\* C16 as stated: after every accumulate of the windowed accumulator, for every
\* input and windowSize, every element of windowLeft is <= the pivot and every
\* element of windowRight is strictly greater than the pivot.
C16_SidesStrictlyOrdered ==
    (Idle /\ option = "faulty" /\ history # << >>) =>
        /\ \A i \in 1..Len(faultyAcc.windowLeft) :
               faultyAcc.windowLeft[i] <= faultyAcc.median
        /\ \A i \in 1..Len(faultyAcc.windowRight) :
               faultyAcc.windowRight[i] > faultyAcc.median

\* C16, amended: after every accumulate of the windowed accumulator, for every
\* input and windowSize, every element of windowLeft is <= the pivot and every
\* element of windowRight is >= the pivot (a value equal to the pivot may sit
\* on either side).
C16_SidesOrdered ==
    (Idle /\ option = "faulty" /\ history # << >>) =>
        /\ \A i \in 1..Len(faultyAcc.windowLeft) :
               faultyAcc.windowLeft[i] <= faultyAcc.median
        /\ \A i \in 1..Len(faultyAcc.windowRight) :
               faultyAcc.windowRight[i] >= faultyAcc.median

\* a duplicate of the pivot sits in windowRight
C16_Witness ==
    /\ Idle /\ option = "faulty"
    /\ Len(history) >= 2
    /\ faultyAcc.windowLeft # << >>
    /\ \E i \in 1..Len(faultyAcc.windowRight) :
           faultyAcc.windowRight[i] = faultyAcc.median

\* the step in which FaultyMedianAccumulator.accumulate(val) runs and returns
FaultyStep ==
    /\ option = "faulty" /\ err = "none"
    /\ pc \in 1..Len(EstimatorCalls) /\ EstimatorCalls[pc] = "medianAcc"
    /\ pc' # pc /\ err' = "none"

\* the accumulator after the rotation of that step, before any compaction
Rotated == FaultyMedianAccumulator_rotate(faultyAcc, val).acc

\* the elements of s at ranks [from, to), counted from 0
Ranks(s, from, to) == [i \in 1..(to - from) |-> s[from + i]]

\* C17: when after the rotation of accumulate windowLeft is longer than
\* windowSize it is replaced by exactly its elements at ranks [len / 2, len)
\* (the largest ones); when windowRight is longer than windowSize it is
\* replaced by exactly its elements at ranks [0, len / 2) (the smallest ones);
\* a side not longer than windowSize is left as the rotation made it, and the
\* pivot is the one the rotation chose.
C17_Compaction ==
    [][FaultyStep =>
          LET low == Rotated.windowLeft
              high == Rotated.windowRight
          IN  /\ faultyAcc'.windowLeft =
                     IF Len(low) > faultyAcc.windowSize
                     THEN Ranks(low, Len(low) \div 2, Len(low))
                     ELSE low
              /\ faultyAcc'.windowRight =
                     IF Len(high) > faultyAcc.windowSize
                     THEN Ranks(high, 0, Len(high) \div 2)
                     ELSE high
              /\ faultyAcc'.median = Rotated.median
              /\ faultyAcc'.windowSize = faultyAcc.windowSize
      ]_vars

\* windowLeft [0, 1, 1] was compacted to [1, 1] with windowSize 2
C17_Witness ==
    /\ Idle /\ option = "faulty"
    /\ faultyAcc.windowSize = 2
    /\ history = <<1, 1, 2, 2>>
    /\ faultyAcc.windowLeft = <<1, 1>>
    /\ faultyAcc.median = 2
    /\ faultyAcc.windowRight = <<2>>

\* C18 as stated: whenever compaction of windowLeft fires, the compacted
\* windowLeft holds exactly windowSize elements, the windowSize elements of the
\* old windowLeft closest to the pivot.
C18_CompactedLowHasWindowSize ==
    [][(FaultyStep /\ Len(Rotated.windowLeft) > faultyAcc.windowSize) =>
          LET low == Rotated.windowLeft
          IN  /\ Len(faultyAcc'.windowLeft) = faultyAcc.windowSize
              /\ faultyAcc'.windowLeft =
                     Ranks(low, Len(low) - faultyAcc.windowSize, Len(low))
      ]_vars

\* C18, amended: whenever compaction of windowLeft fires, the compacted
\* windowLeft holds len - len / 2 elements (half of the old windowLeft, rounded
\* up, whatever windowSize is), namely the largest ones, closest to the pivot.
C18_CompactedLowIsUpperHalf ==
    [][(FaultyStep /\ Len(Rotated.windowLeft) > faultyAcc.windowSize) =>
          LET low == Rotated.windowLeft
              kept == Len(low) - (Len(low) \div 2)
          IN  /\ Len(faultyAcc'.windowLeft) = kept
              /\ faultyAcc'.windowLeft = Ranks(low, Len(low) - kept, Len(low))
      ]_vars

\* windowLeft [-1, 0, 0, 1] was compacted to [0, 1] with windowSize 3
C18_Witness ==
    /\ Idle /\ option = "faulty"
    /\ faultyAcc.windowSize = 3
    /\ history = <<-1, 0, 1, 1, 2>>
    /\ faultyAcc.windowLeft = <<0, 1>>

\* number of occurrences of v in s
Count(s, v) == Cardinality({i \in 1..Len(s) : s[i] = v})

\* number of occurrences of v in windowLeft + {median} + windowRight
Held(f, v) ==
    Count(f.windowLeft, v) + Count(f.windowRight, v) + (IF f.median = v THEN 1 ELSE 0)

\* C19: as long as no compaction has fired, after n accumulations on a fresh
\* windowed accumulator windowLeft + {pivot} + windowRight has n + 1 elements
\* and holds the n observations plus one extra 0, the initial pivot.  Initially
\* it holds the single 0, and an accumulate in which neither side exceeds
\* windowSize adds exactly its argument.
C19_HoldsObservationsPlusZero ==
    /\ []((Idle /\ option = "faulty" /\ faultyAcc.windowSize >= Len(history)) =>
              /\ Len(faultyAcc.windowLeft) + Len(faultyAcc.windowRight) + 1
                     = Len(history) + 1
              /\ \A v \in Values :
                     Held(faultyAcc, v) = Count(history, v) + (IF v = 0 THEN 1 ELSE 0))
    /\ [][(/\ FaultyStep
            /\ Len(Rotated.windowLeft) <= faultyAcc.windowSize
            /\ Len(Rotated.windowRight) <= faultyAcc.windowSize) =>
              \A v \in Values :
                  Held(faultyAcc', v) = Held(faultyAcc, v) + (IF v = val THEN 1 ELSE 0)
          ]_vars

C19_Witness ==
    /\ Idle /\ option = "faulty"
    /\ faultyAcc.windowSize = MaxWindow
    /\ Len(history) = 3
    /\ 0 \notin {history[i] : i \in 1..3}
    /\ Held(faultyAcc, 0) = 1
    /\ faultyAcc.windowLeft # << >> /\ faultyAcc.windowRight # << >>

====
